---- MODULE Spec2Model ----
(***************************************************************************)
(* Transaction lifecycle of sqlx-transaction-manager.                      *)
(*                                                                         *)
(* The model follows src/src/context.rs (TransactionContext) and           *)
(* src/src/executor.rs (with_transaction, with_nested_transaction).  The   *)
(* caller-supplied body is a nondeterministic program that issues          *)
(* statements through the context, calls with_nested_transaction and       *)
(* returns Ok or Err.  The database connection is the external             *)
(* collaborator: a statement fails when the connection is lost or when the *)
(* statement is invalid in the connection's state (a savepoint that does   *)
(* not exist); savepoints follow MySQL: SAVEPOINT of an existing name       *)
(* replaces it, RELEASE deletes it, ROLLBACK TO keeps it.                  *)
(*                                                                         *)
(* Spec runs one with_transaction call, SpecCtx a caller that holds a      *)
(* TransactionContext itself (begin, as_executor, commit, rollback, drop), *)
(* SpecConc two with_transaction calls interleaving on one pool.           *)
(* SpecAnyhow compares with_transaction_anyhow with with_transaction on    *)
(* the same outcomes, SpecCancel lets the call be cancelled, and SpecLive  *)
(* is Spec with the call's steps taken fairly.                             *)
(***************************************************************************)
EXTENDS Integers, Sequences, FiniteSets, TLC

\* ---------------------------------------------------------------- bounds
MaxOps == 4        \* statements issued plus nested calls made by one run

Runs  == {"r1", "r2"}      \* calls of with_transaction
Conns == {"c1", "c2"}      \* connections of the pool
PoolOrder == <<"c1", "c2">> \* the order in which the pool hands them out
Seq1Runs == {"r1"}         \* the run that executes under Spec

NoSp  == <<>>              \* no savepoint named nested_tx exists
NoRun == "none"
NoConn == "none"

Ok(v)  == [tag |-> "Ok",  val |-> v]
Err(e) == [tag |-> "Err", val |-> e]
NoRes  == [tag |-> "None", val |-> <<>>]

VARIABLES
    pc,        \* pc[r]: "idle" | "body" | "arm" | "done" | "panic"
    tx,        \* tx[r]: TransactionContext.tx: "NoCtx" | "Some" | "None"
    conn,      \* conn[r]: the connection the run's transaction holds
    nstmt,     \* nstmt[r]: statements the run's bodies have issued
    bodyRes,   \* bodyRes[r]: what the top-level body returned
    result,    \* result[r]: what with_transaction returned
    stack,     \* stack[r]: frames of the with_nested_transaction calls running
    calls,     \* calls[r]: record of every with_nested_transaction call made
    conns,     \* conns[c]: connection state [owner, pending, sp, broken]
    db,        \* rows durably committed
    undone,    \* rows discarded by a ROLLBACK TO SAVEPOINT
    log        \* statements sent to the database by this layer and the bodies

vars == <<pc, tx, conn, nstmt, bodyRes, result, stack, calls,
          conns, db, undone, log>>

\* ------------------------------------------------------------ the database
FreshConn == [owner |-> NoRun, pending |-> <<>>, sp |-> NoSp, broken |-> FALSE]

RowsOf(s) == {s[i] : i \in 1..Len(s)}

\* The connection is lost before the next statement reaches the server
\* (sqlx::Error from this and every later statement); the server discards
\* the uncommitted statements and the savepoint.
Lose(cs, lost) ==
    IF lost /\ ~cs.broken
    THEN [cs EXCEPT !.broken = TRUE, !.pending = <<>>, !.sp = NoSp]
    ELSE cs

\* SAVEPOINT nested_tx: sets the savepoint at the current position; a
\* savepoint of the same name is replaced.
DbSavepoint(cs) ==
    IF cs.broken THEN [ok |-> FALSE, cs |-> cs]
    ELSE [ok |-> TRUE, cs |-> [cs EXCEPT !.sp = <<Len(cs.pending)>>]]

\* RELEASE SAVEPOINT nested_tx: deletes the savepoint, keeps the statements.
DbRelease(cs) ==
    IF cs.broken \/ cs.sp = NoSp THEN [ok |-> FALSE, cs |-> cs]
    ELSE [ok |-> TRUE, cs |-> [cs EXCEPT !.sp = NoSp]]

\* ROLLBACK TO SAVEPOINT nested_tx: discards the statements issued since the
\* savepoint; the savepoint itself stays.
DbRollbackTo(cs) ==
    IF cs.broken \/ cs.sp = NoSp THEN [ok |-> FALSE, cs |-> cs]
    ELSE [ok |-> TRUE,
          cs |-> [cs EXCEPT !.pending = SubSeq(cs.pending, 1, cs.sp[1])]]

\* A statement of a body: ok says whether the statement itself is valid.
DbExec(cs, row, ok) ==
    IF cs.broken \/ ~ok THEN [ok |-> FALSE, cs |-> cs]
    ELSE [ok |-> TRUE, cs |-> [cs EXCEPT !.pending = Append(@, row)]]

\* COMMIT: fails on a lost connection, otherwise the pending rows are durable.
DbCommitOk(cs) == ~cs.broken

DbCommitRows(cs) == IF DbCommitOk(cs) THEN RowsOf(cs.pending) ELSE {}

\* ROLLBACK: fails on a lost connection; the pending rows are discarded in
\* both cases.
DbRollbackOk(cs) == ~cs.broken

\* --------------------------------------------------------- the context
\* Variant: the handle is found already taken, so nothing is sent.
HasTx_Never(t) == FALSE

\* context.rs: `if let Some(tx) = self.tx.take()` in commit and rollback.
HasTx(t) == t = "Some"

\* context.rs: as_executor expects tx to be Some and panics otherwise.
AsExecutor(t) == t = "Some"

\* ----------------------------------------------------------- the runners
\* Variants: the arms of the match are confused.
TerminalKind_AlwaysCommit(res) == "commit"

TerminalKind_AlwaysRollback(res) == "rollback"

\* executor.rs: the match on the body's result chooses the terminal action.
TerminalKind(res) == IF res.tag = "Ok" THEN "commit" ELSE "rollback"

\* Variant: the rollback's error is propagated with `?` like the commit's.
RunnerResult_SurfaceOpErr(res, opOk) ==
    IF opOk THEN res
    ELSE IF res.tag = "Ok" THEN Err(<<"CommitErr">>) ELSE Err(<<"RollbackErr">>)

\* Variant: the commit's result is discarded like the rollback's.
RunnerResult_IgnoreCommitErr(res, opOk) == res

\* executor.rs: `tx_ctx.commit().await?; Ok(result)` and
\* `let _ = tx_ctx.rollback().await; Err(e)`.
RunnerResult(res, opOk) ==
    IF res.tag = "Ok"
    THEN IF opOk THEN res ELSE Err(<<"CommitErr">>)
    ELSE res

\* Variant: the arms of the nested match are confused.
FinishKind_AlwaysRelease(res) == "release"

\* executor.rs: the match on the nested body's result chooses the finishing
\* savepoint statement.
FinishKind(res) == IF res.tag = "Ok" THEN "release" ELSE "rollback_to"

\* Variant: the RELEASE's result is discarded like the ROLLBACK TO's.
NestedResult_IgnoreReleaseErr(res, opOk) == res

\* Variant: the ROLLBACK TO's error is propagated with `?` like the RELEASE's.
NestedResult_SurfaceOpErr(res, opOk) ==
    IF opOk THEN res
    ELSE IF res.tag = "Ok" THEN Err(<<"ReleaseErr">>)
         ELSE Err(<<"RollbackToErr">>)

\* executor.rs: `RELEASE ... .await?; Ok(result)` and
\* `let _ = ROLLBACK TO ... .await; Err(e)`.
NestedResult(res, opOk) ==
    IF res.tag = "Ok"
    THEN IF opOk THEN res ELSE Err(<<"ReleaseErr">>)
    ELSE res

\* Variant: the SAVEPOINT's error is ignored and the body is called anyway.
InvokeBody_Always(spOk) == TRUE

\* executor.rs: `SAVEPOINT ... .await?` returns before the body is called
\* when the statement failed.
InvokeBody(spOk) == spOk

\* Variant: the body is run again after the finishing statement.
PopFrame_RunBodyAgain(frames) ==
    [frames EXCEPT ![Len(frames)] = [@ EXCEPT !.pc = "body", !.res = NoRes]]

\* executor.rs: with_nested_transaction returns after its finishing
\* statement; its frame is gone.
PopFrame(frames) == SubSeq(frames, 1, Len(frames) - 1)

Stmt(r, kind, call, row, ok) ==
    [run |-> r, kind |-> kind, call |-> call, row |-> row, ok |-> ok]

\* The nested call whose body is running (0: the top-level body).
CurCall(r) == IF stack[r] = <<>> THEN 0 ELSE stack[r][Len(stack[r])].id

\* A body (top-level or nested) is running and may take a step.
BodyRunning(r) ==
    /\ pc[r] = "body"
    /\ IF stack[r] = <<>> THEN TRUE ELSE stack[r][Len(stack[r])].pc = "body"

Init ==
    /\ pc = [r \in Runs |-> "idle"]
    /\ tx = [r \in Runs |-> "NoCtx"]
    /\ conn = [r \in Runs |-> NoConn]
    /\ nstmt = [r \in Runs |-> 0]
    /\ bodyRes = [r \in Runs |-> NoRes]
    /\ result = [r \in Runs |-> NoRes]
    /\ stack = [r \in Runs |-> <<>>]
    /\ calls = [r \in Runs |-> <<>>]
    /\ conns = [c \in Conns |-> FreshConn]
    /\ db = {}
    /\ undone = {}
    /\ log = <<>>

\* Variant: the pool hands out a connection that is already in use.
Idle_Any(cs) == TRUE

\* context.rs: `pool.begin()` acquires a connection no other transaction
\* holds.
Idle(cs) == cs.owner = NoRun

\* Variant: the error of begin is ignored and the body is called anyway.
AfterBegin_IgnoreErr(ok) == "body"

\* executor.rs: `TransactionContext::begin(pool).await?` returns the error
\* of begin at once; otherwise the body is called next.
AfterBegin(ok) == IF ok THEN "body" ELSE "done"

\* TransactionContext::begin inside with_transaction: `begin(pool).await?`.
BeginOk(r) ==
    /\ pc[r] = "idle"
    /\ \E i \in 1..Len(PoolOrder) :
        LET c == PoolOrder[i]
        IN  /\ Idle(conns[c])
            /\ \A j \in 1..(i - 1) : ~Idle(conns[PoolOrder[j]])
            /\ conns' = [conns EXCEPT ![c] = [FreshConn EXCEPT !.owner = r]]
            /\ conn' = [conn EXCEPT ![r] = c]
    /\ tx' = [tx EXCEPT ![r] = "Some"]
    /\ pc' = [pc EXCEPT ![r] = AfterBegin(TRUE)]
    /\ log' = Append(log, Stmt(r, "begin", 0, <<>>, TRUE))
    /\ UNCHANGED <<nstmt, bodyRes, result, stack, calls, db, undone>>

BeginFail(r) ==
    /\ pc[r] = "idle"
    /\ pc' = [pc EXCEPT ![r] = AfterBegin(FALSE)]
    /\ result' = [result EXCEPT ![r] = Err(<<"BeginErr">>)]
    /\ log' = Append(log, Stmt(r, "begin", 0, <<>>, FALSE))
    /\ UNCHANGED <<tx, conn, nstmt, bodyRes, stack, calls, conns, db,
                   undone>>

\* A body returns res: the top-level body to with_transaction, a nested body
\* to with_nested_transaction.
Returns(r, res) ==
    IF stack[r] = <<>>
    THEN /\ bodyRes' = [bodyRes EXCEPT ![r] = res]
         /\ pc' = [pc EXCEPT ![r] = "arm"]
         /\ UNCHANGED stack
    ELSE /\ stack' = [stack EXCEPT ![r][Len(stack[r])] =
                        [@ EXCEPT !.pc = "finish", !.res = res]]
         /\ UNCHANGED <<bodyRes, pc>>

\* A body issues a statement through tx.as_executor() and propagates its
\* error with `?`, as the bodies of the crate's documentation and examples do.
BodyExec(r) ==
    /\ BodyRunning(r)
    /\ nstmt[r] + Len(calls[r]) < MaxOps
    /\ IF ~AsExecutor(tx[r])
       THEN /\ pc' = [pc EXCEPT ![r] = "panic"]
            /\ UNCHANGED <<nstmt, conns, log, stack, bodyRes>>
       ELSE \E fate \in {"ok", "invalid", "lost"} :
            LET c   == conn[r]
                row == <<r, nstmt[r] + 1>>
                out == DbExec(Lose(conns[c], fate = "lost"), row, fate = "ok")
            IN  /\ conns' = [conns EXCEPT ![c] = out.cs]
                /\ nstmt' = [nstmt EXCEPT ![r] = @ + 1]
                /\ log' = Append(log, Stmt(r, "stmt", CurCall(r), row, out.ok))
                /\ IF out.ok
                   THEN UNCHANGED <<pc, stack, bodyRes>>
                   ELSE Returns(r, Err(<<"QueryErr", CurCall(r)>>))
    /\ UNCHANGED <<tx, conn, result, calls, db, undone>>

\* A body returns a value or an error of its own; both name the body.
BodyReturn(r) ==
    /\ BodyRunning(r)
    /\ \E res \in {Ok(<<"v", CurCall(r)>>), Err(<<"E", CurCall(r)>>)} :
        Returns(r, res)
    /\ UNCHANGED <<tx, conn, nstmt, result, calls, conns, db, undone, log>>

\* with_nested_transaction, first step: SAVEPOINT nested_tx through
\* tx_ctx.as_executor(); `.await?` returns the error without calling the body.
NestedSavepoint(r) ==
    /\ BodyRunning(r)
    /\ nstmt[r] + Len(calls[r]) < MaxOps
    /\ IF ~AsExecutor(tx[r])
       THEN /\ pc' = [pc EXCEPT ![r] = "panic"]
            /\ UNCHANGED <<stack, calls, conns, log>>
       ELSE \E lost \in BOOLEAN :
            LET c   == conn[r]
                id  == Len(calls[r]) + 1
                out == DbSavepoint(Lose(conns[c], lost))
            IN  /\ conns' = [conns EXCEPT ![c] = out.cs]
                /\ log' = Append(log, Stmt(r, "savepoint", id, <<>>, out.ok))
                /\ calls' = [calls EXCEPT ![r] = Append(@,
                       [parent |-> CurCall(r), spOk |-> out.ok, body |-> NoRes,
                        fin |-> "none", finOk |-> FALSE,
                        ret |-> IF InvokeBody(out.ok) THEN NoRes
                                ELSE Err(<<"SavepointErr">>)])]
                /\ stack' = [stack EXCEPT ![r] =
                       IF InvokeBody(out.ok)
                       THEN Append(@, [id |-> id, pc |-> "body", res |-> NoRes])
                       ELSE @]
                /\ pc' = pc
    /\ UNCHANGED <<tx, conn, nstmt, bodyRes, result, db, undone>>

\* The frame of the nested call whose body has returned.
Finishing(r) ==
    /\ pc[r] = "body"
    /\ stack[r] # <<>>
    /\ stack[r][Len(stack[r])].pc = "finish"

\* with_nested_transaction returns ret to the body that called it.
NestedReturn(r, kind, opOk, ret) ==
    LET top == stack[r][Len(stack[r])]
    IN  /\ stack' = [stack EXCEPT ![r] = PopFrame(@)]
        /\ calls' = [calls EXCEPT ![r][top.id] =
                        [@ EXCEPT !.body = top.res, !.fin = kind,
                                  !.finOk = opOk, !.ret = ret]]

\* with_nested_transaction, Ok arm: RELEASE SAVEPOINT nested_tx, `.await?`,
\* then Ok(result).
NestedRelease(r) ==
    /\ Finishing(r)
    /\ FinishKind(stack[r][Len(stack[r])].res) = "release"
    /\ IF ~AsExecutor(tx[r])
       THEN /\ pc' = [pc EXCEPT ![r] = "panic"]
            /\ UNCHANGED <<stack, calls, conns, log>>
       ELSE \E lost \in BOOLEAN :
            LET c   == conn[r]
                top == stack[r][Len(stack[r])]
                out == DbRelease(Lose(conns[c], lost))
            IN  /\ conns' = [conns EXCEPT ![c] = out.cs]
                /\ log' = Append(log, Stmt(r, "release", top.id, <<>>, out.ok))
                /\ NestedReturn(r, "release", out.ok, NestedResult(top.res, out.ok))
                /\ pc' = pc
    /\ UNCHANGED <<tx, conn, nstmt, bodyRes, result, db, undone>>

\* with_nested_transaction, Err arm: ROLLBACK TO SAVEPOINT nested_tx, its
\* result discarded, then Err(e).
NestedRollbackTo(r) ==
    /\ Finishing(r)
    /\ FinishKind(stack[r][Len(stack[r])].res) = "rollback_to"
    /\ IF ~AsExecutor(tx[r])
       THEN /\ pc' = [pc EXCEPT ![r] = "panic"]
            /\ UNCHANGED <<stack, calls, conns, log, undone>>
       ELSE \E lost \in BOOLEAN :
            LET c   == conn[r]
                top == stack[r][Len(stack[r])]
                cs  == Lose(conns[c], lost)
                out == DbRollbackTo(cs)
            IN  /\ conns' = [conns EXCEPT ![c] = out.cs]
                /\ undone' = undone \cup
                       (RowsOf(cs.pending) \ RowsOf(out.cs.pending))
                /\ log' = Append(log,
                                 Stmt(r, "rollback_to", top.id, <<>>, out.ok))
                /\ NestedReturn(r, "rollback_to", out.ok,
                                NestedResult(top.res, out.ok))
                /\ pc' = pc
    /\ UNCHANGED <<tx, conn, nstmt, bodyRes, result, db>>

\* with_transaction, Ok arm: tx_ctx.commit().await?, then Ok(result).
\* TransactionContext::commit takes the handle and commits it.
CommitArm(r) ==
    /\ pc[r] = "arm"
    /\ TerminalKind(bodyRes[r]) = "commit"
    /\ IF HasTx(tx[r])
       THEN \E lost \in BOOLEAN :
            LET c  == conn[r]
                cs == Lose(conns[c], lost)
            IN  /\ db' = db \cup DbCommitRows(cs)
                /\ log' = Append(log, Stmt(r, "commit", 0, <<>>, DbCommitOk(cs)))
                /\ result' = [result EXCEPT
                       ![r] = RunnerResult(bodyRes[r], DbCommitOk(cs))]
                /\ conns' = [conns EXCEPT ![c] = FreshConn]
       ELSE /\ result' = [result EXCEPT ![r] = RunnerResult(bodyRes[r], TRUE)]
            /\ UNCHANGED <<db, log, conns>>
    /\ tx' = [tx EXCEPT ![r] = "None"]
    /\ pc' = [pc EXCEPT ![r] = "done"]
    /\ UNCHANGED <<conn, nstmt, bodyRes, stack, calls, undone>>

\* with_transaction, Err arm: let _ = tx_ctx.rollback().await, then Err(e).
\* TransactionContext::rollback takes the handle and rolls it back.
RollbackArm(r) ==
    /\ pc[r] = "arm"
    /\ TerminalKind(bodyRes[r]) = "rollback"
    /\ IF HasTx(tx[r])
       THEN \E lost \in BOOLEAN :
            LET c  == conn[r]
                cs == Lose(conns[c], lost)
            IN  /\ log' = Append(log,
                                 Stmt(r, "rollback", 0, <<>>, DbRollbackOk(cs)))
                /\ result' = [result EXCEPT
                       ![r] = RunnerResult(bodyRes[r], DbRollbackOk(cs))]
                /\ conns' = [conns EXCEPT ![c] = FreshConn]
       ELSE /\ result' = [result EXCEPT ![r] = RunnerResult(bodyRes[r], TRUE)]
            /\ UNCHANGED <<log, conns>>
    /\ tx' = [tx EXCEPT ![r] = "None"]
    /\ pc' = [pc EXCEPT ![r] = "done"]
    /\ UNCHANGED <<conn, nstmt, bodyRes, stack, calls, db, undone>>

Step(r) ==
    \/ BeginOk(r)
    \/ BeginFail(r)
    \/ BodyExec(r)
    \/ NestedSavepoint(r)
    \/ BodyReturn(r)
    \/ NestedRelease(r)
    \/ NestedRollbackTo(r)
    \/ CommitArm(r)
    \/ RollbackArm(r)

\* ------------------------------------- a caller holding a context itself
\* The public TransactionContext driven without the runners: begin, then
\* as_executor, commit and rollback in any order, then the context is
\* dropped. The operations are followed into their branch for a handle that
\* is no longer there.

\* Variant: take() is forgotten and the handle stays in the context.
Taken_Keep(t) == t

\* context.rs: `self.tx.take()` leaves None in the context.
Taken(t) == "None"

\* context.rs, commit and rollback: `if let Some(tx) = self.tx.take()
\* { tx.commit().await?; } Ok(())`: the handle's error is propagated, and
\* with no handle nothing is done and Ok(()) is returned.
CtxOpResult(t, kind, opOk) ==
    IF HasTx(t) /\ ~opOk
    THEN Err(<<IF kind = "commit" THEN "CommitErr" ELSE "RollbackErr">>)
    ELSE Ok(<<kind>>)

\* Variant: dropping an open handle makes its statements durable.
DropDurable_Commit(cs) == RowsOf(cs.pending)

\* context.rs, Drop: the context does nothing itself; the handle it still
\* holds is dropped with it and the transaction resource rolls back.
DropDurable(cs) == {}

\* TransactionContext::begin called by the caller itself.
CtxBegin(r) ==
    /\ pc[r] = "idle"
    /\ \E i \in 1..Len(PoolOrder) :
        LET c == PoolOrder[i]
        IN  /\ Idle(conns[c])
            /\ \A j \in 1..(i - 1) : ~Idle(conns[PoolOrder[j]])
            /\ conns' = [conns EXCEPT ![c] = [FreshConn EXCEPT !.owner = r]]
            /\ conn' = [conn EXCEPT ![r] = c]
    /\ tx' = [tx EXCEPT ![r] = "Some"]
    /\ pc' = [pc EXCEPT ![r] = "ctx"]
    /\ log' = Append(log, Stmt(r, "begin", 0, <<>>, TRUE))
    /\ UNCHANGED <<nstmt, bodyRes, result, stack, calls, db, undone>>

\* A statement through as_executor(); result[r] is what the last operation
\* on the context returned.
CtxExec(r) ==
    /\ pc[r] = "ctx"
    /\ nstmt[r] < MaxOps
    /\ IF ~AsExecutor(tx[r])
       THEN /\ pc' = [pc EXCEPT ![r] = "panic"]
            /\ UNCHANGED <<nstmt, conns, log, result>>
       ELSE \E fate \in {"ok", "invalid", "lost"} :
            LET c   == conn[r]
                row == <<r, nstmt[r] + 1>>
                out == DbExec(Lose(conns[c], fate = "lost"), row, fate = "ok")
            IN  /\ conns' = [conns EXCEPT ![c] = out.cs]
                /\ nstmt' = [nstmt EXCEPT ![r] = @ + 1]
                /\ log' = Append(log, Stmt(r, "stmt", 0, row, out.ok))
                /\ result' = [result EXCEPT ![r] =
                       IF out.ok THEN Ok(<<"stmt">>) ELSE Err(<<"QueryErr", 0>>)]
                /\ pc' = pc
    /\ UNCHANGED <<tx, conn, bodyRes, stack, calls, db, undone>>

\* TransactionContext::commit.
CtxCommit(r) ==
    /\ pc[r] = "ctx"
    /\ IF HasTx(tx[r])
       THEN \E lost \in BOOLEAN :
            LET c  == conn[r]
                cs == Lose(conns[c], lost)
            IN  /\ db' = db \cup DbCommitRows(cs)
                /\ log' = Append(log, Stmt(r, "commit", 0, <<>>, DbCommitOk(cs)))
                /\ result' = [result EXCEPT
                       ![r] = CtxOpResult(tx[r], "commit", DbCommitOk(cs))]
                /\ conns' = [conns EXCEPT ![c] = FreshConn]
       ELSE /\ result' = [result EXCEPT
                   ![r] = CtxOpResult(tx[r], "commit", TRUE)]
            /\ UNCHANGED <<db, log, conns>>
    /\ tx' = [tx EXCEPT ![r] = Taken(@)]
    /\ UNCHANGED <<pc, conn, nstmt, bodyRes, stack, calls, undone>>

\* TransactionContext::rollback.
CtxRollback(r) ==
    /\ pc[r] = "ctx"
    /\ IF HasTx(tx[r])
       THEN \E lost \in BOOLEAN :
            LET c  == conn[r]
                cs == Lose(conns[c], lost)
            IN  /\ log' = Append(log,
                                 Stmt(r, "rollback", 0, <<>>, DbRollbackOk(cs)))
                /\ result' = [result EXCEPT
                       ![r] = CtxOpResult(tx[r], "rollback", DbRollbackOk(cs))]
                /\ conns' = [conns EXCEPT ![c] = FreshConn]
       ELSE /\ result' = [result EXCEPT
                   ![r] = CtxOpResult(tx[r], "rollback", TRUE)]
            /\ UNCHANGED <<log, conns>>
    /\ tx' = [tx EXCEPT ![r] = Taken(@)]
    /\ UNCHANGED <<pc, conn, nstmt, bodyRes, stack, calls, db, undone>>

\* The context goes out of scope. A handle still in it is dropped: nothing
\* is sent by this layer, the resource rolls the transaction back and the
\* connection returns to the pool.
CtxDrop(r) ==
    /\ pc[r] = "ctx"
    /\ pc' = [pc EXCEPT ![r] = "done"]
    /\ IF HasTx(tx[r])
       THEN /\ db' = db \cup DropDurable(conns[conn[r]])
            /\ conns' = [conns EXCEPT ![conn[r]] = FreshConn]
            /\ tx' = [tx EXCEPT ![r] = "Dropped"]
       ELSE UNCHANGED <<db, conns, tx>>
    /\ UNCHANGED <<conn, nstmt, bodyRes, result, stack, calls, undone, log>>

CtxStep(r) ==
    \/ CtxBegin(r)
    \/ BeginFail(r)
    \/ CtxExec(r)
    \/ CtxCommit(r)
    \/ CtxRollback(r)
    \/ CtxDrop(r)

\* The future of with_transaction is dropped at a suspension point between
\* begin and the terminal operation (in a body, at a savepoint statement):
\* nothing more of the call runs, its context is dropped with the handle
\* still in it, and the transaction resource rolls back.
Cancel(r) ==
    /\ pc[r] \in {"body", "arm"}
    /\ pc' = [pc EXCEPT ![r] = "cancelled"]
    /\ IF HasTx(tx[r])
       THEN /\ db' = db \cup DropDurable(conns[conn[r]])
            /\ conns' = [conns EXCEPT ![conn[r]] = FreshConn]
            /\ tx' = [tx EXCEPT ![r] = "Dropped"]
       ELSE UNCHANGED <<db, conns, tx>>
    /\ UNCHANGED <<conn, nstmt, bodyRes, result, stack, calls, undone, log>>

\* ------------------------------------------- the anyhow flavour runners
\* anyhow_compat.rs: `anyhow::anyhow!("{}", e)` keeps the error's message
\* only; `?` on a sqlx::Error wraps the error itself.
AnyhowMsg(e) == <<"msg">> \o e

AnyhowFrom(e) == <<"from">> \o e

\* Variant: the begin error is ignored and the body is called anyway.
AnyhowAfterBegin_IgnoreErr(ok) == "body"

\* with_transaction_anyhow: `begin(pool).await.map_err(..)?`.
AnyhowAfterBegin(ok) == IF ok THEN "body" ELSE "done"

\* Variant: the arms of the match are confused.
AnyhowTerminalKind_AlwaysCommit(res) == "commit"

\* with_transaction_anyhow: the match on the body's result.
AnyhowTerminalKind(res) == IF res.tag = "Ok" THEN "commit" ELSE "rollback"

\* Variant: the commit's result is discarded like the rollback's.
AnyhowRunnerResult_IgnoreCommitErr(res, opOk) == res

\* with_transaction_anyhow: `commit().await.map_err(..)?; Ok(result)` and
\* `let _ = tx_ctx.rollback().await; Err(e)`.
AnyhowRunnerResult(res, opOk) ==
    IF res.tag = "Ok"
    THEN IF opOk THEN res ELSE Err(AnyhowMsg(<<"CommitErr">>))
    ELSE res

\* with_nested_transaction_anyhow: `SAVEPOINT ... .await?` before the body.
AnyhowInvokeBody(spOk) == spOk

\* with_nested_transaction_anyhow: the match on the nested body's result.
AnyhowFinishKind(res) == IF res.tag = "Ok" THEN "release" ELSE "rollback_to"

\* with_nested_transaction_anyhow: `RELEASE ... .await?; Ok(result)` and
\* `let _ = ROLLBACK TO ... .await; Err(e)`.
AnyhowNestedResult(res, opOk) ==
    IF res.tag = "Ok"
    THEN IF opOk THEN res ELSE Err(AnyhowFrom(<<"ReleaseErr">>))
    ELSE res

AnyhowBeginOk(r) ==
    /\ pc[r] = "idle"
    /\ \E i \in 1..Len(PoolOrder) :
        LET c == PoolOrder[i]
        IN  /\ Idle(conns[c])
            /\ \A j \in 1..(i - 1) : ~Idle(conns[PoolOrder[j]])
            /\ conns' = [conns EXCEPT ![c] = [FreshConn EXCEPT !.owner = r]]
            /\ conn' = [conn EXCEPT ![r] = c]
    /\ tx' = [tx EXCEPT ![r] = "Some"]
    /\ pc' = [pc EXCEPT ![r] = AnyhowAfterBegin(TRUE)]
    /\ log' = Append(log, Stmt(r, "begin", 0, <<>>, TRUE))
    /\ UNCHANGED <<nstmt, bodyRes, result, stack, calls, db, undone>>

AnyhowBeginFail(r) ==
    /\ pc[r] = "idle"
    /\ pc' = [pc EXCEPT ![r] = AnyhowAfterBegin(FALSE)]
    /\ result' = [result EXCEPT ![r] = Err(AnyhowMsg(<<"BeginErr">>))]
    /\ log' = Append(log, Stmt(r, "begin", 0, <<>>, FALSE))
    /\ UNCHANGED <<tx, conn, nstmt, bodyRes, stack, calls, conns, db,
                   undone>>

\* with_nested_transaction_anyhow, first step: SAVEPOINT nested_tx.
AnyhowNestedSavepoint(r) ==
    /\ BodyRunning(r)
    /\ nstmt[r] + Len(calls[r]) < MaxOps
    /\ IF ~AsExecutor(tx[r])
       THEN /\ pc' = [pc EXCEPT ![r] = "panic"]
            /\ UNCHANGED <<stack, calls, conns, log>>
       ELSE \E lost \in BOOLEAN :
            LET c   == conn[r]
                id  == Len(calls[r]) + 1
                out == DbSavepoint(Lose(conns[c], lost))
            IN  /\ conns' = [conns EXCEPT ![c] = out.cs]
                /\ log' = Append(log, Stmt(r, "savepoint", id, <<>>, out.ok))
                /\ calls' = [calls EXCEPT ![r] = Append(@,
                       [parent |-> CurCall(r), spOk |-> out.ok, body |-> NoRes,
                        fin |-> "none", finOk |-> FALSE,
                        ret |-> IF AnyhowInvokeBody(out.ok) THEN NoRes
                                ELSE Err(AnyhowFrom(<<"SavepointErr">>))])]
                /\ stack' = [stack EXCEPT ![r] =
                       IF AnyhowInvokeBody(out.ok)
                       THEN Append(@, [id |-> id, pc |-> "body", res |-> NoRes])
                       ELSE @]
                /\ pc' = pc
    /\ UNCHANGED <<tx, conn, nstmt, bodyRes, result, db, undone>>

\* with_nested_transaction_anyhow, Ok arm.
AnyhowNestedRelease(r) ==
    /\ Finishing(r)
    /\ AnyhowFinishKind(stack[r][Len(stack[r])].res) = "release"
    /\ IF ~AsExecutor(tx[r])
       THEN /\ pc' = [pc EXCEPT ![r] = "panic"]
            /\ UNCHANGED <<stack, calls, conns, log>>
       ELSE \E lost \in BOOLEAN :
            LET c   == conn[r]
                top == stack[r][Len(stack[r])]
                out == DbRelease(Lose(conns[c], lost))
            IN  /\ conns' = [conns EXCEPT ![c] = out.cs]
                /\ log' = Append(log, Stmt(r, "release", top.id, <<>>, out.ok))
                /\ NestedReturn(r, "release", out.ok,
                                AnyhowNestedResult(top.res, out.ok))
                /\ pc' = pc
    /\ UNCHANGED <<tx, conn, nstmt, bodyRes, result, db, undone>>

\* with_nested_transaction_anyhow, Err arm.
AnyhowNestedRollbackTo(r) ==
    /\ Finishing(r)
    /\ AnyhowFinishKind(stack[r][Len(stack[r])].res) = "rollback_to"
    /\ IF ~AsExecutor(tx[r])
       THEN /\ pc' = [pc EXCEPT ![r] = "panic"]
            /\ UNCHANGED <<stack, calls, conns, log, undone>>
       ELSE \E lost \in BOOLEAN :
            LET c   == conn[r]
                top == stack[r][Len(stack[r])]
                cs  == Lose(conns[c], lost)
                out == DbRollbackTo(cs)
            IN  /\ conns' = [conns EXCEPT ![c] = out.cs]
                /\ undone' = undone \cup
                       (RowsOf(cs.pending) \ RowsOf(out.cs.pending))
                /\ log' = Append(log,
                                 Stmt(r, "rollback_to", top.id, <<>>, out.ok))
                /\ NestedReturn(r, "rollback_to", out.ok,
                                AnyhowNestedResult(top.res, out.ok))
                /\ pc' = pc
    /\ UNCHANGED <<tx, conn, nstmt, bodyRes, result, db>>

\* with_transaction_anyhow, Ok arm.
AnyhowCommitArm(r) ==
    /\ pc[r] = "arm"
    /\ AnyhowTerminalKind(bodyRes[r]) = "commit"
    /\ IF HasTx(tx[r])
       THEN \E lost \in BOOLEAN :
            LET c  == conn[r]
                cs == Lose(conns[c], lost)
            IN  /\ db' = db \cup DbCommitRows(cs)
                /\ log' = Append(log, Stmt(r, "commit", 0, <<>>, DbCommitOk(cs)))
                /\ result' = [result EXCEPT
                       ![r] = AnyhowRunnerResult(bodyRes[r], DbCommitOk(cs))]
                /\ conns' = [conns EXCEPT ![c] = FreshConn]
       ELSE /\ result' = [result EXCEPT
                   ![r] = AnyhowRunnerResult(bodyRes[r], TRUE)]
            /\ UNCHANGED <<db, log, conns>>
    /\ tx' = [tx EXCEPT ![r] = "None"]
    /\ pc' = [pc EXCEPT ![r] = "done"]
    /\ UNCHANGED <<conn, nstmt, bodyRes, stack, calls, undone>>

\* with_transaction_anyhow, Err arm.
AnyhowRollbackArm(r) ==
    /\ pc[r] = "arm"
    /\ AnyhowTerminalKind(bodyRes[r]) = "rollback"
    /\ IF HasTx(tx[r])
       THEN \E lost \in BOOLEAN :
            LET c  == conn[r]
                cs == Lose(conns[c], lost)
            IN  /\ log' = Append(log,
                                 Stmt(r, "rollback", 0, <<>>, DbRollbackOk(cs)))
                /\ result' = [result EXCEPT
                       ![r] = AnyhowRunnerResult(bodyRes[r], DbRollbackOk(cs))]
                /\ conns' = [conns EXCEPT ![c] = FreshConn]
       ELSE /\ result' = [result EXCEPT
                   ![r] = AnyhowRunnerResult(bodyRes[r], TRUE)]
            /\ UNCHANGED <<log, conns>>
    /\ tx' = [tx EXCEPT ![r] = "None"]
    /\ pc' = [pc EXCEPT ![r] = "done"]
    /\ UNCHANGED <<conn, nstmt, bodyRes, stack, calls, db, undone>>

\* ------------------------------------------------------------ properties
\* Statements of one kind that run r has sent.
Sent(r, kind) == {i \in 1..Len(log) : log[i].run = r /\ log[i].kind = kind}

Count(r, kind) == Cardinality(Sent(r, kind))

\* Rows the bodies of run r issued successfully.
IssuedOk(r) == {log[i].row : i \in {k \in Sent(r, "stmt") : log[k].ok}}

\* The top-level body of run r has returned to with_transaction and
\* with_transaction has returned.
Returned(r) == pc[r] = "done" /\ bodyRes[r] # NoRes

\* C1: in every run of with_transaction whose begin succeeded and whose body
\* returned, exactly one of commit and rollback is attempted: at no time more
\* than one terminal statement has been sent, and when with_transaction has
\* returned exactly one has.
Thm_C1_ExactlyOneTerminal ==
    \A r \in Runs :
        /\ Count(r, "commit") + Count(r, "rollback") <= 1
        /\ Returned(r) => Count(r, "commit") + Count(r, "rollback") = 1

Wit_C1_TerminalSent ==
    \E r \in Runs : Returned(r) /\ nstmt[r] > 0
                    /\ Count(r, "commit") + Count(r, "rollback") = 1

\* C2: when the body returned Ok, with_transaction sends exactly one commit
\* and no rollback, whether the commit succeeds or fails.
Thm_C2_OkCommitsOnce ==
    \A r \in Runs :
        bodyRes[r].tag = "Ok" =>
            /\ Count(r, "rollback") = 0
            /\ Count(r, "commit") <= 1
            /\ pc[r] = "done" => Count(r, "commit") = 1

Wit_C2_FailedCommit ==
    \E r \in Runs :
        /\ pc[r] = "done" /\ bodyRes[r].tag = "Ok"
        /\ \E i \in Sent(r, "commit") : ~log[i].ok

\* C3: when the body returned Err, with_transaction sends exactly one
\* rollback on the top-level transaction and no commit.
Thm_C3_ErrRollsBackOnce ==
    \A r \in Runs :
        bodyRes[r].tag = "Err" =>
            /\ Count(r, "commit") = 0
            /\ Count(r, "rollback") <= 1
            /\ pc[r] = "done" => Count(r, "rollback") = 1

Wit_C3_RolledBack ==
    \E r \in Runs :
        /\ pc[r] = "done" /\ bodyRes[r].tag = "Err"
        /\ \E i \in Sent(r, "rollback") : log[i].ok

\* C4: when the body returned Err(e), with_transaction returns exactly
\* Err(e), after a successful and after a failed rollback alike.
Thm_C4_BodyErrorSurfaces ==
    \A r \in Runs :
        (pc[r] = "done" /\ bodyRes[r].tag = "Err") => result[r] = bodyRes[r]

Wit_C4_RollbackFailed ==
    \E r \in Runs :
        /\ pc[r] = "done" /\ bodyRes[r].tag = "Err"
        /\ \E i \in Sent(r, "rollback") : ~log[i].ok
        /\ result[r] = bodyRes[r]

\* C5: a row is in the committed database only if the commit of the run that
\* issued it was sent and succeeded; after with_transaction returned because
\* the body failed, none of the run's rows is in the database.
Thm_C5_DurableOnlyByCommit ==
    /\ \A row \in db : \E i \in Sent(row[1], "commit") : log[i].ok
    /\ \A r \in Runs :
        (pc[r] = "done" /\ bodyRes[r].tag = "Err") =>
            \A row \in db : row[1] # r

Wit_C5_FailedBodyLeavesNothing ==
    \E r \in Runs :
        /\ pc[r] = "done" /\ bodyRes[r].tag = "Err"
        /\ result[r].tag = "Err"
        /\ IssuedOk(r) # {}
        /\ \E i \in Sent(r, "rollback") : log[i].ok
        /\ IssuedOk(r) \cap db = {}

\* C6: when with_transaction returns Ok, every row a body issued
\* successfully and no ROLLBACK TO SAVEPOINT discarded is in the database,
\* and the commit succeeded.
Thm_C6_OkMeansPersisted ==
    \A r \in Runs :
        result[r].tag = "Ok" =>
            /\ (IssuedOk(r) \ undone) \subseteq db
            /\ \E i \in Sent(r, "commit") : log[i].ok

Wit_C6_PersistedAfterNestedRollback ==
    \E r \in Runs :
        /\ result[r].tag = "Ok"
        /\ IssuedOk(r) \cap undone # {}
        /\ (IssuedOk(r) \ undone) # {}
        /\ (IssuedOk(r) \ undone) \subseteq db


\* Nested call c of run r is call id or runs inside the body of call id.
RECURSIVE Within(_, _, _)
Within(r, id, c) ==
    IF c = id THEN TRUE
    ELSE IF c = 0 THEN FALSE
    ELSE Within(r, id, calls[r][c].parent)

CallIds(r) == 1..Len(calls[r])

\* Rows the body of call id of run r issued successfully itself.
RowsOfCall(r, id) ==
    {log[i].row : i \in {k \in Sent(r, "stmt") : log[k].ok /\ log[k].call = id}}

\* Positions in the log of what call id of run r and its body sent.
LogOfCall(r, id) ==
    {i \in 1..Len(log) : log[i].run = r /\ log[i].call # 0
                         /\ Within(r, id, log[i].call)}

FinishOf(r, id) ==
    {i \in 1..Len(log) : log[i].run = r /\ log[i].call = id
                         /\ log[i].kind \in {"release", "rollback_to"}}

\* C7: a failing with_nested_transaction does not roll back the enclosing
\* transaction: once the enclosing transaction has committed, the rows the
\* top-level body issued itself are in the database and the rows the failed
\* nested body issued are not.
Cex_C7_NestedFailureIsolated ==
    \A r \in Runs :
        result[r].tag = "Ok" =>
            \A id \in CallIds(r) :
                calls[r][id].body.tag = "Err" =>
                    /\ RowsOfCall(r, 0) \subseteq db
                    /\ RowsOfCall(r, id) \cap db = {}

\* C8: per nested call the log holds SAVEPOINT first, then what the body
\* sends, then the one finishing statement, and nothing of the call after it.
Thm_C8_SavepointBodyFinishOrder ==
    \A r \in Runs : \A id \in CallIds(r) :
        LET mine == LogOfCall(r, id)
            sp   == {i \in mine : log[i].kind = "savepoint" /\ log[i].call = id}
            fin  == FinishOf(r, id)
        IN  /\ Cardinality(sp) = 1
            /\ \A i \in sp : \A j \in mine \ sp : i < j
            /\ \A j \in fin : \A i \in mine \ fin : i < j
            /\ calls[r][id].ret # NoRes /\ calls[r][id].spOk => fin # {}

Wit_C8_BodyBetween ==
    \E r \in Runs : \E id \in CallIds(r) :
        /\ calls[r][id].ret # NoRes
        /\ FinishOf(r, id) # {}
        /\ \E i \in LogOfCall(r, id) : log[i].kind = "stmt"
        /\ \E i \in 1..Len(log) : log[i].kind = "stmt" /\ log[i].call = 0
                                  /\ \A j \in FinishOf(r, id) : j < i

\* C9: a nested call whose SAVEPOINT succeeded sends at most one finishing
\* statement, and when it has returned exactly one: RELEASE SAVEPOINT after
\* body Ok, ROLLBACK TO SAVEPOINT after body Err.
Thm_C9_OneFinishByOutcome ==
    \A r \in Runs : \A id \in CallIds(r) :
        /\ Cardinality(FinishOf(r, id)) <= 1
        /\ (calls[r][id].spOk /\ calls[r][id].ret # NoRes) =>
            /\ Cardinality(FinishOf(r, id)) = 1
            /\ \A i \in FinishOf(r, id) :
                log[i].kind = IF calls[r][id].body.tag = "Ok"
                              THEN "release" ELSE "rollback_to"

Wit_C9_BothKinds ==
    \E r \in Runs : \E a, b \in CallIds(r) :
        /\ calls[r][a].body.tag = "Ok" /\ calls[r][b].body.tag = "Err"
        /\ \E i \in FinishOf(r, a) : log[i].kind = "release"
        /\ \E i \in FinishOf(r, b) : log[i].kind = "rollback_to"

\* C10: when the body of with_nested_transaction returned Err(e), the call
\* returns exactly Err(e), whether ROLLBACK TO SAVEPOINT succeeded or failed.
Thm_C10_NestedBodyErrorSurfaces ==
    \A r \in Runs : \A id \in CallIds(r) :
        calls[r][id].body.tag = "Err" => calls[r][id].ret = calls[r][id].body

Wit_C10_RollbackToFailed ==
    \E r \in Runs : \E id \in CallIds(r) :
        /\ calls[r][id].body.tag = "Err"
        /\ calls[r][id].fin = "rollback_to" /\ ~calls[r][id].finOk
        /\ calls[r][id].ret = calls[r][id].body

\* C11: when the SAVEPOINT of with_nested_transaction failed, the body is
\* not called (no statement and no nested call belongs to it), neither
\* RELEASE SAVEPOINT nor ROLLBACK TO SAVEPOINT is sent, and the call returns
\* the savepoint's error.
Thm_C11_SavepointFailureSkipsBody ==
    \A r \in Runs : \A id \in CallIds(r) :
        ~calls[r][id].spOk =>
            /\ calls[r][id].ret = Err(<<"SavepointErr">>)
            /\ calls[r][id].body = NoRes
            /\ FinishOf(r, id) = {}
            /\ \A i \in LogOfCall(r, id) :
                log[i].kind = "savepoint" /\ log[i].call = id /\ ~log[i].ok
            /\ \A k \in 1..Len(stack[r]) : stack[r][k].id # id

Wit_C11_SavepointFailed ==
    \E r \in Runs : \E id \in CallIds(r) :
        /\ ~calls[r][id].spOk
        /\ calls[r][id].ret = Err(<<"SavepointErr">>)
        /\ pc[r] = "done"
        /\ \E i \in Sent(r, "stmt") : log[i].ok

\* The nested calls of run r follow one another in the top-level body: none
\* runs inside another, and every SAVEPOINT succeeded.
Sequential(r) ==
    \A id \in CallIds(r) : calls[r][id].parent = 0 /\ calls[r][id].spOk

Terminals(r) == Sent(r, "commit") \cup Sent(r, "rollback")

\* C14: a context is Active (handle present) until commit or rollback is
\* invoked on it and Committed or RolledBack from then on, also when the
\* terminal statement failed: once a terminal statement was sent the handle
\* is never present again, it remains the only terminal statement (so
\* Committed never becomes RolledBack or the reverse), and nothing is sent
\* through the context after it.
Thm_C14_TerminalStatesAbsorbing ==
    \A r \in Runs :
        /\ tx[r] = "Some" => Terminals(r) = {}
        /\ Cardinality(Terminals(r)) <= 1
        /\ \A i \in Terminals(r) :
            \A j \in 1..Len(log) : log[j].run = r => j <= i

\* commit failed, and a statement was then attempted through as_executor.
Wit_C14_UseAfterFailedCommit ==
    \E r \in Runs :
        /\ pc[r] = "panic" /\ tx[r] = "None"
        /\ \E i \in Sent(r, "commit") : ~log[i].ok
        /\ \E i \in Sent(r, "stmt") : log[i].ok

\* C15: a context that was begun and went out of scope with its handle still
\* in it (neither commit nor rollback was invoked) is rolled back by the
\* transaction resource: no commit was sent, none of its rows is durable,
\* and its connection is back in the pool with nothing pending.
Thm_C15_DropRollsBack ==
    \A r \in Runs :
        tx[r] = "Dropped" =>
            /\ Terminals(r) = {}
            /\ \A row \in db : row[1] # r
            /\ conns[conn[r]] = FreshConn

Wit_C15_DroppedWithRows ==
    \E r \in Runs :
        /\ tx[r] = "Dropped" /\ pc[r] = "done"
        /\ IssuedOk(r) # {}
        /\ IssuedOk(r) \cap db = {}

\* C16: when begin failed inside with_transaction, with_transaction has
\* returned that error at once: the body was not called (no body result, no
\* statement, no nested call) and neither commit nor rollback was sent; the
\* failed begin is all the run did.
Thm_C16_BeginFailureReturnsAtOnce ==
    \A r \in Runs :
        (\E i \in Sent(r, "begin") : ~log[i].ok) =>
            /\ pc[r] = "done"
            /\ result[r] = Err(<<"BeginErr">>)
            /\ bodyRes[r] = NoRes
            /\ nstmt[r] = 0 /\ calls[r] = <<>>
            /\ Terminals(r) = {}
            /\ Cardinality({i \in 1..Len(log) : log[i].run = r}) = 1

Wit_C16_BeginFailed ==
    \E r \in Runs :
        /\ \E i \in Sent(r, "begin") : ~log[i].ok
        /\ pc[r] = "done" /\ result[r] = Err(<<"BeginErr">>)

\* C17: when the body returned Ok(v) and the commit failed, with_transaction
\* returns the commit's error, not Ok(v), and this layer sends no rollback
\* afterwards (the failed commit is the last thing the run sent);
\* with_transaction returns Ok(v) only when the commit succeeded.
Thm_C17_CommitFailureSurfaces ==
    \A r \in Runs :
        /\ (bodyRes[r].tag = "Ok" /\ \E i \in Sent(r, "commit") : ~log[i].ok) =>
            /\ pc[r] = "done"
            /\ result[r] = Err(<<"CommitErr">>)
            /\ Count(r, "rollback") = 0
            /\ \A i \in Sent(r, "commit") :
                \A j \in 1..Len(log) : log[j].run = r => j <= i
        /\ result[r].tag = "Ok" =>
            /\ result[r] = bodyRes[r]
            /\ \E i \in Sent(r, "commit") : log[i].ok

Wit_C17_CommitErrReturned ==
    \E r \in Runs :
        /\ bodyRes[r] = Ok(<<"v", 0>>)
        /\ \E i \in Sent(r, "commit") : ~log[i].ok
        /\ result[r] = Err(<<"CommitErr">>)
        /\ IssuedOk(r) # {} /\ IssuedOk(r) \cap db = {}

\* Nested calls of run r whose SAVEPOINT nested_tx succeeded and that have
\* sent neither RELEASE SAVEPOINT nor ROLLBACK TO SAVEPOINT yet.
PendingSavepoints(r) ==
    {id \in CallIds(r) : calls[r][id].spOk /\ FinishOf(r, id) = {}}

\* C18: on a connection driven through with_nested_transaction at most one
\* savepoint named nested_tx is pending (issued, and neither released nor
\* rolled back to yet) in every reachable state.
Cex_C18_OnePendingSavepoint ==
    \A r \in Runs : Cardinality(PendingSavepoints(r)) <= 1

\* Run r holds an open top-level transaction.
Open(r) == pc[r] \in {"body", "arm"}

\* C19: with_transaction calls running concurrently on one pool each own
\* their connection for their whole duration: two open runs never hold the
\* same connection, the statements pending on a connection are all its
\* owner's, and while the connection is alive they are exactly what the
\* owner issued (no other run's rollback discarded them); a row is durable
\* only by the commit of the run that issued it, and a run that returned Ok
\* has all its rows durable.
Thm_C19_RunsOwnTheirConnection ==
    /\ \A r, s \in Runs : (Open(r) /\ Open(s) /\ r # s) => conn[r] # conn[s]
    /\ \A c \in Conns : \A row \in RowsOf(conns[c].pending) :
        row[1] = conns[c].owner
    /\ \A r \in Runs :
        /\ Open(r) =>
            /\ conns[conn[r]].owner = r
            /\ ~conns[conn[r]].broken =>
                RowsOf(conns[conn[r]].pending) = IssuedOk(r) \ undone
        /\ result[r].tag = "Ok" => (IssuedOk(r) \ undone) \subseteq db
    /\ \A row \in db : \E i \in Sent(row[1], "commit") : log[i].ok

\* Two runs overlapped (each began before the other ended), one committed
\* its rows and the other rolled its rows back.
Wit_C19_OverlappingRuns ==
    \E r, s \in Runs :
        /\ r # s /\ pc[r] = "done" /\ pc[s] = "done"
        /\ result[r].tag = "Ok" /\ IssuedOk(r) # {} /\ IssuedOk(r) \subseteq db
        /\ bodyRes[s].tag = "Err" /\ IssuedOk(s) # {} /\ IssuedOk(s) \cap db = {}
        /\ \E i \in Sent(r, "commit") : \E j \in Sent(s, "rollback") :
            /\ \E k \in Sent(s, "stmt") : k < i
            /\ \E k \in Sent(r, "stmt") : k < j

\* C20: the rows of a nested body whose savepoint was released are only
\* pending in the enclosing transaction: they are not durable while the run
\* is open, and when the top-level body afterwards returned Err and
\* with_transaction sent the rollback, they are not in the database.
Thm_C20_ReleasedRowsRollBackWithOuter ==
    \A r \in Runs : \A id \in CallIds(r) :
        (calls[r][id].fin = "release" /\ calls[r][id].finOk) =>
            /\ Open(r) => RowsOfCall(r, id) \cap db = {}
            /\ (pc[r] = "done" /\ bodyRes[r].tag = "Err") =>
                /\ Count(r, "rollback") = 1
                /\ RowsOfCall(r, id) \cap db = {}

Wit_C20_ReleasedThenOuterErr ==
    \E r \in Runs : \E id \in CallIds(r) :
        /\ calls[r][id].fin = "release" /\ calls[r][id].finOk
        /\ calls[r][id].ret.tag = "Ok"
        /\ RowsOfCall(r, id) # {}
        /\ pc[r] = "done" /\ bodyRes[r] = Err(<<"E", 0>>)
        /\ \E i \in Sent(r, "rollback") : log[i].ok
        /\ RowsOfCall(r, id) \cap db = {}

\* C21: when the body of with_nested_transaction returned Ok(v) and RELEASE
\* SAVEPOINT failed, the call returns the release's error, not Ok(v), and
\* sends no ROLLBACK TO SAVEPOINT (the failed RELEASE is the last thing the
\* call sent); the call returns Ok(v) only when the release succeeded.
Thm_C21_ReleaseFailureSurfaces ==
    \A r \in Runs : \A id \in CallIds(r) :
        /\ (calls[r][id].body.tag = "Ok" /\ calls[r][id].fin = "release"
            /\ ~calls[r][id].finOk) =>
            /\ calls[r][id].ret = Err(<<"ReleaseErr">>)
            /\ \A i \in FinishOf(r, id) :
                /\ log[i].kind = "release" /\ ~log[i].ok
                /\ \A j \in LogOfCall(r, id) : j <= i
        /\ calls[r][id].ret.tag = "Ok" =>
            /\ calls[r][id].ret = calls[r][id].body
            /\ \E i \in FinishOf(r, id) : log[i].kind = "release" /\ log[i].ok

Wit_C21_ReleaseErrReturned ==
    \E r \in Runs : \E id \in CallIds(r) :
        /\ calls[r][id].body = Ok(<<"v", id>>)
        /\ calls[r][id].fin = "release" /\ ~calls[r][id].finOk
        /\ calls[r][id].ret = Err(<<"ReleaseErr">>)
        /\ RowsOfCall(r, id) # {}
        /\ pc[r] = "done"

\* Statements of the body of call id (0: the top-level body) that failed.
\* A body returns its first failed statement's error, so one invocation
\* leaves at most one.
FailedStmts(r, id) ==
    {i \in Sent(r, "stmt") : log[i].call = id /\ ~log[i].ok}

\* C22: nothing is retried. One with_transaction call sends begin at most
\* once and commit or rollback at most once altogether; one
\* with_nested_transaction call sends SAVEPOINT exactly once and RELEASE or
\* ROLLBACK TO at most once altogether; every body runs at most once: it
\* has at most one failed statement, a nested body has at most one frame,
\* and nothing of a call is sent after its finishing statement.
Thm_C22_NothingRetried ==
    \A r \in Runs :
        /\ Count(r, "begin") <= 1
        /\ Cardinality(Terminals(r)) <= 1
        /\ Cardinality(FailedStmts(r, 0)) <= 1
        /\ \A id \in CallIds(r) :
            /\ Cardinality({i \in Sent(r, "savepoint") : log[i].call = id}) = 1
            /\ Cardinality(FinishOf(r, id)) <= 1
            /\ Cardinality(FailedStmts(r, id)) <= 1
            /\ Cardinality({k \in 1..Len(stack[r]) : stack[r][k].id = id}) <= 1
            /\ \A i \in FinishOf(r, id) : \A j \in LogOfCall(r, id) : j <= i

\* A run in which a body statement, the ROLLBACK TO and the commit failed.
Wit_C22_FailuresNotRetried ==
    \E r \in Runs : \E id \in CallIds(r) :
        /\ pc[r] = "done"
        /\ Cardinality(FailedStmts(r, id)) = 1
        /\ calls[r][id].fin = "rollback_to" /\ ~calls[r][id].finOk
        /\ \E i \in Sent(r, "commit") : ~log[i].ok
        /\ Cardinality(Terminals(r)) = 1 /\ Cardinality(FinishOf(r, id)) = 1

\* C24: whenever with_nested_transaction returned Err (the body failed, the
\* SAVEPOINT failed or the RELEASE failed; ROLLBACK TO succeeded or not),
\* none of the rows its body issued is in the database once the enclosing
\* transaction has committed.
Cex_C24_NestedErrLeavesNothing ==
    \A r \in Runs :
        result[r].tag = "Ok" =>
            \A id \in CallIds(r) :
                calls[r][id].ret.tag = "Err" => RowsOfCall(r, id) \cap db = {}

\* Rows issued by the body of call id of run r and by the nested calls made
\* inside it.
RowsWithin(r, id) ==
    UNION {RowsOfCall(r, c) : c \in {x \in CallIds(r) : Within(r, id, x)}}

\* Nested calls of run r made inside the body of call id.
InnerCalls(r, id) == {c \in CallIds(r) : calls[r][c].parent = id}

\* C25: with a with_nested_transaction call inside the body of another on
\* the same context, when the outer nested body failed, the outer ROLLBACK
\* TO SAVEPOINT discarded everything issued since the outer SAVEPOINT (the
\* outer body's own rows and the inner call's rows: none is in the database
\* after the enclosing commit); and when both bodies returned Ok on a
\* connection that stayed alive, both RELEASE SAVEPOINT succeeded and both
\* calls returned Ok.
Cex_C25_DepthTwoNesting ==
    \A r \in Runs :
        result[r].tag = "Ok" =>
            \A id \in CallIds(r) : \A c \in InnerCalls(r, id) :
                /\ calls[r][id].body.tag = "Err" =>
                    RowsWithin(r, id) \cap db = {}
                /\ (calls[r][id].body.tag = "Ok" /\ calls[r][c].body.tag = "Ok") =>
                    /\ calls[r][c].finOk /\ calls[r][c].ret.tag = "Ok"
                    /\ calls[r][id].finOk /\ calls[r][id].ret.tag = "Ok"

\* Successful SAVEPOINT statements of run r, by position in the log.
SavepointsSet(r) == {i \in Sent(r, "savepoint") : log[i].ok}

\* The savepoint nested_tx of run r's connection, if there is one, is the
\* one call id set: no SAVEPOINT succeeded after the call's own.
SetLast(r, id) ==
    /\ calls[r][id].spOk
    /\ \A i \in SavepointsSet(r) : \A j \in SavepointsSet(r) :
        log[i].call = id => j <= i

\* The nested call id of run r has returned and the connection is alive.
ReturnedOnLiveConn(r, id) ==
    /\ Open(r) /\ ~conns[conn[r]].broken
    /\ calls[r][id].ret # NoRes

Thm_C27_BodyHoldsLiveHandle ==
    \A r \in Runs :
        /\ pc[r] # "panic"
        /\ Open(r) => tx[r] = "Some"
        /\ tx[r] = "None" => (pc[r] = "done" /\ Terminals(r) # {})

\* An inner nested body has issued a statement through as_executor.
Wit_C27_InnerBodyStatement ==
    \E r \in Runs :
        /\ Len(stack[r]) > 1
        /\ tx[r] = "Some" /\ pc[r] = "body"
        /\ \E i \in Sent(r, "stmt") : log[i].ok /\ log[i].call = CurCall(r)

\* C28: when a with_transaction call was cancelled after begin succeeded and
\* before its commit was issued (during the body, a savepoint statement or
\* a nested body), no commit is ever issued for its transaction, it returns
\* nothing, and none of its rows is durable.
Thm_C28_CancelledNeverCommits ==
    \A r \in Runs :
        pc[r] = "cancelled" =>
            /\ Terminals(r) = {}
            /\ result[r] = NoRes
            /\ \A row \in db : row[1] # r
            /\ tx[r] = "Dropped" /\ conns[conn[r]] = FreshConn

\* Cancelled inside a nested body, after another nested call was released.
Wit_C28_CancelledInNestedBody ==
    \E r \in Runs : \E id \in CallIds(r) :
        /\ pc[r] = "cancelled" /\ stack[r] # <<>>
        /\ calls[r][id].fin = "release" /\ calls[r][id].finOk
        /\ RowsOfCall(r, id) # {}
        /\ \E i \in Sent(r, "stmt") : log[i].ok /\ log[i].call = CurCall(r)
        /\ IssuedOk(r) \cap db = {}

\* C29: provided its bodies and statements return, every with_transaction
\* call whose begin succeeded eventually returns, and from then on its
\* context is consumed: a terminal statement was sent and the handle is
\* gone; a call that has returned never holds a handle.
Thm_C29_ReturnsWithContextConsumed ==
    \A r \in Seq1Runs :
        /\ (tx[r] = "Some") ~>
               (pc[r] = "done" /\ tx[r] = "None" /\ Terminals(r) # {})
        /\ [](pc[r] = "done" => tx[r] # "Some")

Wit_C29_ReturnedConsumed ==
    \E r \in Seq1Runs :
        /\ pc[r] = "done" /\ tx[r] = "None"
        /\ nstmt[r] + Len(calls[r]) = MaxOps
        /\ \E i \in Terminals(r) : ~log[i].ok

Next == \E r \in Seq1Runs : Step(r)

Spec == Init /\ [][Next]_vars

NextCtx == \E r \in Seq1Runs : CtxStep(r)

SpecCtx == Init /\ [][NextCtx]_vars

\* Operations (statements) each body may issue when two runs interleave.
ConcOps == 2

\* Two with_transaction calls running concurrently on one pool; their
\* bodies issue statements only.
ConcBodyExec(r) == nstmt[r] < ConcOps /\ BodyExec(r)

ConcStep(r) ==
    \/ BeginOk(r)
    \/ BeginFail(r)
    \/ ConcBodyExec(r)
    \/ BodyReturn(r)
    \/ CommitArm(r)
    \/ RollbackArm(r)

NextConc == \E r \in Runs : ConcStep(r)

SpecConc == Init /\ [][NextConc]_vars

\* ---------------------------------------------- the two flavours compared
\* PlainRun is a with_transaction call; when it has returned, AnyhowRun is a
\* with_transaction_anyhow call that meets the same outcomes: its bodies do
\* what PlainRun's bodies did and its statements succeed or fail as
\* PlainRun's did. What the runners themselves send and return is left to
\* their code.
PlainRun == "r1"

AnyhowRun == "r2"

LogOf(r) == SelectSeq(log, LAMBDA e : e.run = r)

\* What the body of call id (0: the top-level body) of run r returned.
BodyResOf(r, id) ==
    IF id = 0 THEN bodyRes[r]
    ELSE IF id > Len(calls[r]) THEN NoRes
    ELSE IF \E k \in 1..Len(stack[r]) : stack[r][k].id = id
         THEN LET k == CHOOSE k \in 1..Len(stack[r]) : stack[r][k].id = id
              IN  stack[r][k].res
         ELSE calls[r][id].body

\* What the body of call id of run r did itself: the statements it issued
\* and the nested calls it made.
BodyDid(r, id) ==
    LET L == LogOf(r)
    IN  {k \in 1..Len(L) :
            \/ L[k].kind = "stmt" /\ L[k].call = id
            \/ L[k].kind = "savepoint" /\ calls[r][L[k].call].parent = id}

\* AnyhowRun meets the outcomes PlainRun met.
Follows ==
    LET a == LogOf(AnyhowRun)
        p == LogOf(PlainRun)
    IN  /\ \A k \in 1..Len(a) :
            /\ a[k].kind \in {"stmt", "savepoint"} =>
                /\ k <= Len(p)
                /\ p[k].kind = a[k].kind /\ p[k].call = a[k].call
                /\ a[k].kind = "savepoint" =>
                    calls[PlainRun][p[k].call].parent
                        = calls[AnyhowRun][a[k].call].parent
            /\ (k <= Len(p) /\ p[k].kind = a[k].kind) => p[k].ok = a[k].ok
        /\ \A id \in {0} \cup CallIds(AnyhowRun) :
            BodyResOf(AnyhowRun, id) # NoRes =>
                /\ BodyResOf(AnyhowRun, id) = BodyResOf(PlainRun, id)
                /\ BodyDid(AnyhowRun, id) = BodyDid(PlainRun, id)


\* Row of a log entry without the run that issued it.
RowNo(e) == IF e.row = <<>> THEN <<>> ELSE <<e.row[2]>>

\* C23: with_transaction_anyhow and with_nested_transaction_anyhow behave
\* as with_transaction and with_nested_transaction: meeting the same
\* outcomes of begin, SAVEPOINT, the bodies and the finishing and terminal
\* statements, the anyhow run sends the same statements in the same order,
\* calls its bodies in the same cases, never panics, every nested call and
\* the run return Ok or Err in the same cases, an Ok carries the same value
\* and a body's error is returned unchanged, and the same rows are durable.
Thm_C23_AnyhowEquivalent ==
    LET a == LogOf(AnyhowRun)
        p == LogOf(PlainRun)
    IN  /\ Len(a) <= Len(p)
        /\ \A k \in 1..Len(a) :
            /\ a[k].kind = p[k].kind /\ a[k].call = p[k].call
            /\ a[k].ok = p[k].ok /\ RowNo(a[k]) = RowNo(p[k])
        /\ pc[AnyhowRun] # "panic"
        /\ pc[AnyhowRun] \in {"body", "arm"} => bodyRes[PlainRun] # NoRes
        /\ \A k \in 1..Len(stack[AnyhowRun]) :
            BodyResOf(PlainRun, stack[AnyhowRun][k].id) # NoRes
        /\ \A id \in CallIds(AnyhowRun) :
            LET ca == calls[AnyhowRun][id]
                cp == calls[PlainRun][id]
            IN  ca.ret # NoRes =>
                    /\ ca.ret.tag = cp.ret.tag
                    /\ ca.ret.tag = "Ok" => ca.ret = cp.ret
                    /\ ca.body.tag = "Err" => ca.ret = ca.body /\ ca.ret = cp.ret
        /\ pc[AnyhowRun] = "done" =>
            /\ Len(a) = Len(p)
            /\ result[AnyhowRun].tag = result[PlainRun].tag
            /\ result[AnyhowRun].tag = "Ok" =>
                result[AnyhowRun] = result[PlainRun]
            /\ bodyRes[AnyhowRun].tag = "Err" =>
                /\ result[AnyhowRun] = bodyRes[AnyhowRun]
                /\ result[AnyhowRun] = result[PlainRun]
            /\ {row[2] : row \in {x \in db : x[1] = AnyhowRun}}
                = {row[2] : row \in {x \in db : x[1] = PlainRun}}

\* Both flavours ran a nested call whose body failed, then a top-level body
\* that returned Ok, and the commit failed.
Wit_C23_BothFlavoursCommitErr ==
    /\ pc[PlainRun] = "done" /\ pc[AnyhowRun] = "done"
    /\ result[PlainRun] = Err(<<"CommitErr">>)
    /\ result[AnyhowRun] = Err(AnyhowMsg(<<"CommitErr">>))
    /\ \E id \in CallIds(AnyhowRun) :
        /\ calls[AnyhowRun][id].body.tag = "Err"
        /\ calls[AnyhowRun][id].ret = calls[PlainRun][id].ret
    /\ Len(LogOf(AnyhowRun)) = Len(LogOf(PlainRun))
    /\ \E k \in 1..Len(LogOf(AnyhowRun)) :
        LogOf(AnyhowRun)[k].kind = "stmt" /\ LogOf(AnyhowRun)[k].ok

\* Operations (statements and nested calls) of PlainRun when the two
\* flavours are compared.
AnyhowOps == 3

PlainBodyExec(r) == nstmt[r] + Len(calls[r]) < AnyhowOps /\ BodyExec(r)

PlainNestedSavepoint(r) ==
    nstmt[r] + Len(calls[r]) < AnyhowOps /\ NestedSavepoint(r)

PlainStep(r) ==
    \/ BeginOk(r)
    \/ BeginFail(r)
    \/ PlainBodyExec(r)
    \/ BodyReturn(r)
    \/ PlainNestedSavepoint(r)
    \/ NestedRelease(r)
    \/ NestedRollbackTo(r)
    \/ CommitArm(r)
    \/ RollbackArm(r)

\* A step of AnyhowRun after PlainRun has returned, meeting its outcomes.
Replay(A) == pc[PlainRun] = "done" /\ A /\ Follows'

NextAnyhow ==
    \/ PlainStep(PlainRun)
    \/ Replay(AnyhowBeginOk(AnyhowRun))
    \/ Replay(AnyhowBeginFail(AnyhowRun))
    \/ Replay(BodyExec(AnyhowRun))
    \/ Replay(BodyReturn(AnyhowRun))
    \/ Replay(AnyhowNestedSavepoint(AnyhowRun))
    \/ Replay(AnyhowNestedRelease(AnyhowRun))
    \/ Replay(AnyhowNestedRollbackTo(AnyhowRun))
    \/ Replay(AnyhowCommitArm(AnyhowRun))
    \/ Replay(AnyhowRollbackArm(AnyhowRun))

SpecAnyhow == Init /\ [][NextAnyhow]_vars

\* One with_transaction call that may be cancelled.
NextCancel == \E r \in Seq1Runs : Step(r) \/ Cancel(r)

SpecCancel == Init /\ [][NextCancel]_vars

\* The bodies and the statements of the call return: the call keeps taking
\* steps while it has one to take.
SpecLive == Init /\ [][Next]_vars /\ WF_vars(Next)
====
